---------------------------- MODULE Spec2Model ----------------------------
(***************************************************************************)
(* Model of the Dexter HTTP API server (server.ts with the model fallback  *)
(* chain): getModelChain, runAgent and the fetch handler of Bun.serve.     *)
(*                                                                         *)
(* Strings are sequences of characters, so that split, trim, join and      *)
(* template literals are computed character by character.  A character is  *)
(* a one-character string; a code point that cannot stand in a TLA+ string *)
(* (U+2000 and above, except U+FEFF) is written by its name, "U+2028".     *)
(* An optional string (string | undefined) is a record [some, val].        *)
(***************************************************************************)
EXTENDS Integers, Sequences, FiniteSets, TLC

(***************************************************************************)
(* Bounds of the model.                                                    *)
(***************************************************************************)
\* longest DEXTER_FALLBACK_MODELS value drawn for the chain builder
MaxListLen == 6
\* most events one agent stream emits before it ends or raises (requests)
MaxEvents == 2
\* most events of a stream fed to the reduction of runAgent on its own
MaxStream == 4
\* most changes of process.env after startup
MaxEnvChanges == 1

(***************************************************************************)
(* Optional strings and JavaScript truthiness.                             *)
(***************************************************************************)
Undefined == [some |-> FALSE, val |-> <<>>]
Some(s) == [some |-> TRUE, val |-> s]

\* `x || y` on string | undefined: undefined and '' are falsy
Truthy(o) == o.some /\ o.val # <<>>

\* left || right, the right operand being a string
OrElse(o, s) == IF Truthy(o) THEN o.val ELSE s

(***************************************************************************)
(* String helpers: String.prototype.split(','), trim, Array.prototype.join *)
(***************************************************************************)
\* code points without a TLA+ escape that can stand in a string as they are
VT == ""
NBSP == " "
ZWNBSP == "﻿"
OghamSpace == " "

\* ECMAScript WhiteSpace: TAB, VT (U+000B), FF, SP, NBSP (U+00A0), ZWNBSP
\* (U+FEFF) and the Unicode category Zs (U+1680, U+2000..U+200A, U+202F,
\* U+205F, U+3000)
WhiteSpace ==
  {"\t", VT, "\f", " ", NBSP, ZWNBSP, OghamSpace,
   "U+2000", "U+2001", "U+2002", "U+2003", "U+2004", "U+2005", "U+2006",
   "U+2007", "U+2008", "U+2009", "U+200A", "U+202F", "U+205F", "U+3000"}

\* ECMAScript LineTerminator: LF, CR, LS, PS
LineTerminator == {"\n", "\r", "U+2028", "U+2029"}

\* what String.prototype.trim strips from both ends
IsWhitespace(c) == c \in WhiteSpace \/ c \in LineTerminator

RECURSIVE TrimStart(_)
TrimStart(s) ==
  IF s # <<>> /\ IsWhitespace(Head(s)) THEN TrimStart(Tail(s)) ELSE s

RECURSIVE TrimEnd(_)
TrimEnd(s) ==
  IF s # <<>> /\ IsWhitespace(s[Len(s)])
  THEN TrimEnd(SubSeq(s, 1, Len(s) - 1))
  ELSE s

trim(s) == TrimEnd(TrimStart(s))

\* s.split(','): always at least one piece; '' splits to ['']
RECURSIVE split(_)
split(s) ==
  IF \E i \in 1..Len(s) : s[i] = ","
  THEN LET i == CHOOSE k \in 1..Len(s) :
                  s[k] = "," /\ \A j \in 1..(k - 1) : s[j] # ","
       IN  <<SubSeq(s, 1, i - 1)>> \o split(SubSeq(s, i + 1, Len(s)))
  ELSE <<s>>

\* .map(m => m.trim())
RECURSIVE MapTrim(_)
MapTrim(xs) ==
  IF xs = <<>> THEN <<>> ELSE <<trim(Head(xs))>> \o MapTrim(Tail(xs))

\* .filter(Boolean): drops the empty strings
RECURSIVE FilterBoolean(_)
FilterBoolean(xs) ==
  IF xs = <<>> THEN <<>>
  ELSE IF Head(xs) # <<>> THEN <<Head(xs)>> \o FilterBoolean(Tail(xs))
  ELSE FilterBoolean(Tail(xs))

\* chain.includes(fb)
includes(chain, fb) == \E i \in 1..Len(chain) : chain[i] = fb

\* xs.join(sep)
RECURSIVE join(_, _)
join(xs, sep) ==
  IF xs = <<>> THEN <<>>
  ELSE IF Len(xs) = 1 THEN Head(xs)
  ELSE Head(xs) \o sep \o join(Tail(xs), sep)

(***************************************************************************)
(* String literals of the program.                                         *)
(***************************************************************************)
\* 'gpt-5.2'
DefaultModel == <<"g", "p", "t", "-", "5", ".", "2">>

\* 'Missing required field: query'
MissingQueryMessage ==
  <<"M", "i", "s", "s", "i", "n", "g", " ", "r", "e", "q", "u", "i", "r",
    "e", "d", " ", "f", "i", "e", "l", "d", ":", " ", "q", "u", "e", "r", "y">>

\* 'All models failed. '
AllFailedPrefix ==
  <<"A", "l", "l", " ", "m", "o", "d", "e", "l", "s", " ", "f", "a", "i",
    "l", "e", "d", ".", " ">>

\* ' | '
ErrorSeparator == <<" ", "|", " ">>

\* 'Not found'
NotFoundMessage == <<"N", "o", "t", " ", "f", "o", "u", "n", "d">>


(***************************************************************************)
(* Optional numbers (duration?: number, maxIterations?: number).           *)
(***************************************************************************)
NoNumber == [some |-> FALSE, val |-> 0]
Num(n) == [some |-> TRUE, val |-> n]

\* body.maxIterations || 10
DefaultMaxIterations == 10

(***************************************************************************)
(* State.                                                                  *)
(***************************************************************************)
VARIABLES
  startupModels, \* const models = getModelChain() of the startup banner
  env,         \* process.env: DEXTER_MODEL and DEXTER_FALLBACK_MODELS
  envChanges,  \* number of changes made to process.env since startup
  pc,          \* per request: where its fetch handler is suspended
  body,        \* per request: the parsed JSON body
  models,      \* per request: const models = getModelChain(body.model)
  idx,         \* per request: position of the for..of loop in models
  errors,      \* per request: const errors: string[]
  acc,         \* per request: answer, toolCalls, iterations, totalTime
  emitted,     \* per request: events the current agent stream has emitted
  agents,      \* per request: Agent.create calls, with the run's state
  pending,     \* per request: the promise of runAgent that fetch awaits
  log,         \* per request: console.log / console.error lines
  response,    \* per request: the Response returned by fetch
  chainArg,    \* argument of a direct call of getModelChain
  chainOut,    \* result of that call
  streamIn,    \* events of a stream reduced on its own
  streamAcc,   \* accumulators of that reduction
  streamOut    \* value returned by that reduction

reqVars ==
  <<pc, body, models, idx, errors, acc, emitted, agents, pending, log, response>>
chainVars == <<chainArg, chainOut>>
streamVars == <<streamIn, streamAcc, streamOut>>
vars == <<startupModels, env, envChanges, reqVars, chainVars, streamVars>>

(***************************************************************************)
(* getModelChain                                                           *)
(***************************************************************************)
\* for (const fb of fallbacks) if (!chain.includes(fb)) chain.push(fb)
RECURSIVE pushFallbacks(_, _)
pushFallbacks(chain, fallbacks) ==
  IF fallbacks = <<>> THEN chain
  ELSE pushFallbacks(
         IF ~includes(chain, Head(fallbacks))
         THEN Append(chain, Head(fallbacks))
         ELSE chain,
         Tail(fallbacks))

\* requestModel || process.env.DEXTER_MODEL || 'gpt-5.2'
primaryOf(requestModel) ==
  OrElse(requestModel, OrElse(env.DEXTER_MODEL, DefaultModel))

\* (process.env.DEXTER_FALLBACK_MODELS || '').split(',').map(trim).filter(Boolean)
fallbacksOf ==
  FilterBoolean(MapTrim(split(OrElse(env.DEXTER_FALLBACK_MODELS, <<>>))))

\* mutant: deduplicates against the primary only
getModelChainPrimaryOnly(requestModel) ==
  LET primary == primaryOf(requestModel)
  IN  <<primary>> \o SelectSeq(fallbacksOf, LAMBDA fb : fb # primary)

\* mutant: entries are not trimmed
getModelChainNoTrim(requestModel) ==
  pushFallbacks(<<primaryOf(requestModel)>>,
                FilterBoolean(split(OrElse(env.DEXTER_FALLBACK_MODELS, <<>>))))

\* mutant: every fallback is pushed, the includes test is missing
getModelChainNoDedup(requestModel) ==
  <<primaryOf(requestModel)>> \o fallbacksOf

getModelChain(requestModel) ==
  pushFallbacks(<<primaryOf(requestModel)>>, fallbacksOf)

(***************************************************************************)
(* Inputs: what the outside world (clients, the Agent, the environment)    *)
(* can hand to the program.                                                *)
(***************************************************************************)
Requests == {1}

Methods == {"OPTIONS", "GET", "POST"}
Paths == {"/api/health", "/api/research", "/"}

\* model identifiers a client sends as body.model
RequestModels == {Undefined, Some(<<>>), Some(<<"a">>)}

\* values of body.query
Queries == {Undefined, Some(<<>>), Some(<<"q">>)}

\* values of body.maxIterations
MaxIterationsValues == {NoNumber, Num(3)}

\* results of a successful req.json()
Bodies ==
  [received : {TRUE}, query : Queries, model : RequestModels,
   maxIterations : MaxIterationsValues]

\* req.json() has not resolved
NoBody == [received |-> FALSE]

\* values thrown by req.json(), Agent.create or the event stream:
\* an Error with a message, or a string that is thrown as it is
Thrown ==
  { [isError |-> TRUE, message |-> <<"x">>], [isError |-> FALSE, value |-> <<"y">>] }

\* what Agent.create does when runAgent calls it: it returns an agent, or
\* it throws
CreateOutcomes == { [ok |-> TRUE] } \cup { [ok |-> FALSE, err |-> e] : e \in Thrown }

\* args of a tool call that JSON.stringify rejects: an object that refers
\* to itself, a BigInt
Unserializable == {"circular"}

\* the TypeError Response.json throws for such a value; its text is the
\* runtime's
SerializeErrors == { [isError |-> TRUE, message |-> <<"z">>] }

\* events an agent stream can emit
ToolEndEvents ==
  { [type |-> "tool_end", tool |-> "search", args |-> "q1", duration |-> Num(5)],
    [type |-> "tool_end", tool |-> "fetch", args |-> "circular", duration |-> NoNumber] }
DoneEvents ==
  { [type |-> "done", answer |-> "yes", iterations |-> 1, totalTime |-> 10],
    [type |-> "done", answer |-> "no", iterations |-> 2, totalTime |-> 20] }
OtherEvents == { [type |-> "thinking", message |-> "hm"] }
Events == ToolEndEvents \cup DoneEvents \cup OtherEvents

\* events of the agent streams of a request: tool calls and an answer
RequestEvents ==
  ToolEndEvents \cup { [type |-> "done", answer |-> "yes", iterations |-> 1, totalTime |-> 10] }

\* environments the server process runs under
Defaults == {Undefined, Some(<<"b">>)}
FallbackLists == { Undefined, Some(<<"b", ",", " ", "a", ",", "b">>) }
Envs == [DEXTER_MODEL : Defaults, DEXTER_FALLBACK_MODELS : FallbackLists]

(***************************************************************************)
(* runAgent: the reduction of the event stream.                            *)
(***************************************************************************)
\* let answer = ''; const toolCalls = []; let iterations = 0; let totalTime = 0
InitAcc == [answer |-> "", toolCalls |-> <<>>, iterations |-> 0, totalTime |-> 0]

\* mutant: a tool call is put in front of the earlier ones
reducePrepend(a, event) ==
  LET a1 == IF event.type = "tool_end"
            THEN [a EXCEPT !.toolCalls =
                    <<[tool |-> event.tool, args |-> event.args,
                       duration |-> event.duration]>> \o @]
            ELSE a
  IN  IF event.type = "done"
      THEN [a1 EXCEPT !.answer = event.answer,
                      !.iterations = event.iterations,
                      !.totalTime = event.totalTime]
      ELSE a1

\* mutant: a tool_end event is also counted as an iteration
reduceCountsTools(a, event) ==
  LET a1 == IF event.type = "tool_end"
            THEN [a EXCEPT !.toolCalls =
                    Append(@, [tool |-> event.tool, args |-> event.args,
                               duration |-> event.duration]),
                           !.iterations = @ + 1]
            ELSE a
  IN  IF event.type = "done"
      THEN [a1 EXCEPT !.answer = event.answer,
                      !.iterations = event.iterations,
                      !.totalTime = event.totalTime]
      ELSE a1

\* mutant: once an answer is set, later events are not reduced
reduceStopsAtDone(a, event) ==
  IF a.answer # "" THEN a
  ELSE LET a1 == IF event.type = "tool_end"
                 THEN [a EXCEPT !.toolCalls =
                         Append(@, [tool |-> event.tool, args |-> event.args,
                                    duration |-> event.duration])]
                 ELSE a
       IN  IF event.type = "done"
           THEN [a1 EXCEPT !.answer = event.answer,
                           !.iterations = event.iterations,
                           !.totalTime = event.totalTime]
           ELSE a1

\* body of `for await (const event of agent.run(query))`
reduce(a, event) ==
  LET a1 == IF event.type = "tool_end"
            THEN [a EXCEPT !.toolCalls =
                    Append(@, [tool |-> event.tool, args |-> event.args,
                               duration |-> event.duration])]
            ELSE a
  IN  IF event.type = "done"
      THEN [a1 EXCEPT !.answer = event.answer,
                      !.iterations = event.iterations,
                      !.totalTime = event.totalTime]
      ELSE a1

\* return { answer, toolCalls, iterations, totalTime }
runAgentResult(a) ==
  [answer |-> a.answer, toolCalls |-> a.toolCalls,
   iterations |-> a.iterations, totalTime |-> a.totalTime]

(***************************************************************************)
(* Responses.                                                              *)
(***************************************************************************)
NoResponse == [status |-> 0]

\* new Response(null, { status: 204 })
OptionsResponse == [status |-> 204]

\* { status: 'ok', primaryModel: models[0], fallbackModels: models.slice(1) }
HealthResponse(ms) ==
  [status |-> 200, kind |-> "health",
   primaryModel |-> Head(ms), fallbackModels |-> Tail(ms)]

\* Response.json({ error }, { status })
ErrorResponse(st, message) == [status |-> st, kind |-> "error", error |-> message]

\* Response.json({ ...result, model })
ResultResponse(result, model) ==
  [status |-> 200, kind |-> "result", answer |-> result.answer,
   toolCalls |-> result.toolCalls, iterations |-> result.iterations,
   totalTime |-> result.totalTime, model |-> model]

\* mutant: String(err) for every thrown value; an Error prints "Error: message"
messageOfString(err) ==
  IF err.isError
  THEN <<"E", "r", "r", "o", "r", ":", " ">> \o err.message
  ELSE err.value

\* err instanceof Error ? err.message : String(err)
\* (String(err) of a thrown string is that string)
messageOf(err) == IF err.isError THEN err.message ELSE err.value

\* `${model}: ${msg}`
errorEntry(model, msg) == model \o <<":", " ">> \o msg

\* mutant: the failures are joined with ', '
allModelsFailedComma(errs) == AllFailedPrefix \o join(errs, <<",", " ">>)

\* `All models failed. ${errors.join(' | ')}`
allModelsFailed(errs) == AllFailedPrefix \o join(errs, ErrorSeparator)

(***************************************************************************)
(* The promise of runAgent, as the loop of fetch sees it.                  *)
(***************************************************************************)
NoOutcome == [kind |-> "none"]
Returned(result) == [kind |-> "returned", value |-> result]
Rejected(err) == [kind |-> "rejected", err |-> err]

(***************************************************************************)
(* Initial state: the server is started, no request has arrived.           *)
(***************************************************************************)
InitRequests ==
  /\ pc = [r \in Requests |-> "idle"]
  /\ body = [r \in Requests |-> NoBody]
  /\ models = [r \in Requests |-> <<>>]
  /\ idx = [r \in Requests |-> 0]
  /\ errors = [r \in Requests |-> <<>>]
  /\ acc = [r \in Requests |-> InitAcc]
  /\ emitted = [r \in Requests |-> <<>>]
  /\ agents = [r \in Requests |-> <<>>]
  /\ pending = [r \in Requests |-> NoOutcome]
  /\ log = [r \in Requests |-> <<>>]
  /\ response = [r \in Requests |-> NoResponse]

InitChain ==
  /\ chainArg = Undefined
  /\ chainOut = [returned |-> FALSE]

InitStream ==
  /\ streamIn = <<>>
  /\ streamAcc = InitAcc
  /\ streamOut = [returned |-> FALSE]

\* the module's top level: const models = getModelChain()
InitStartup == startupModels = getModelChain(Undefined)

Init ==
  /\ env \in Envs
  /\ envChanges = 0
  /\ InitStartup
  /\ InitRequests
  /\ InitChain
  /\ InitStream

(***************************************************************************)
(* The fetch handler, one action per job of the event loop: the code that  *)
(* runs from one await (req.json(), the stream's next event, runAgent's    *)
(* promise) to the next one.                                               *)
(***************************************************************************)
\* fetch returns resp; no promise is awaited any more
Respond(r, resp) ==
  /\ response' = [response EXCEPT ![r] = resp]
  /\ pc' = [pc EXCEPT ![r] = "responded"]
  /\ pending' = [pending EXCEPT ![r] = NoOutcome]

\* if (!body.query)
missingQueryUndefinedOnly(b) == ~b.query.some

missingQuery(b) == ~Truthy(b.query)

\* body.maxIterations || 10
maxIterationsOf(b) ==
  IF b.maxIterations.some /\ b.maxIterations.val # 0
  THEN b.maxIterations.val
  ELSE DefaultMaxIterations

\* mutant: the chain is walked from its last entry
loopModelReversed(ms, i) == ms[Len(ms) + 1 - i]

\* the loop variable of `for (const model of models)` in iteration i
loopModel(ms, i) == ms[i]

tryingLine(model) == [kind |-> "trying", model |-> model]
failedLine(model, msg) == [kind |-> "failed", model |-> model, msg |-> msg]

\* Agent.create throws inside runAgent: the async function returns a
\* rejected promise, which fetch awaits
CreateThrows(r, err) ==
  /\ pending' = [pending EXCEPT ![r] = Rejected(err)]
  /\ pc' = [pc EXCEPT ![r] = "settled"]
  /\ UNCHANGED <<agents, acc, emitted>>

\* mutant: the accumulators are declared outside runAgent and live on
\* from one attempt to the next
newAccKept(r) == acc[r]

\* runAgent's locals: answer = '', toolCalls = [], iterations = 0, totalTime = 0
newAcc(r) == InitAcc

\* Agent.create, the locals, agent.run(query), up to the first event awaited
CreateAgent(r, model, b) ==
  /\ agents' = [agents EXCEPT ![r] =
                  Append(@, [model |-> model,
                             maxIterations |-> maxIterationsOf(b),
                             query |-> b.query.val,
                             state |-> "running",
                             toolEnds |-> 0])]
  /\ acc' = [acc EXCEPT ![r] = newAcc(r)]
  /\ emitted' = [emitted EXCEPT ![r] = <<>>]
  /\ pending' = [pending EXCEPT ![r] = NoOutcome]
  /\ pc' = [pc EXCEPT ![r] = "stream"]

\* one iteration of the loop up to `await runAgent(...)`: console.log, then
\* the synchronous start of runAgent; `lines` is the log so far
startAttempt(r, model, b, lines, create) ==
  /\ log' = [log EXCEPT ![r] = Append(lines, tryingLine(model))]
  /\ IF create.ok
     THEN CreateAgent(r, model, b)
     ELSE CreateThrows(r, create.err)

\* a request arrives: routing up to the first await
Fetch(r, method, path) ==
  /\ pc[r] = "idle"
  /\ IF method = "OPTIONS"
     THEN Respond(r, OptionsResponse)
     ELSE IF path = "/api/health" /\ method = "GET"
     THEN Respond(r, HealthResponse(getModelChain(Undefined)))
     ELSE IF path = "/api/research" /\ method = "POST"
     THEN /\ pc' = [pc EXCEPT ![r] = "json"]
          /\ UNCHANGED <<response, pending>>
     ELSE Respond(r, ErrorResponse(404, NotFoundMessage))
  /\ UNCHANGED <<startupModels, env, envChanges, body, models, idx, errors, acc, emitted,
                 agents, log, chainVars, streamVars>>

\* await req.json() throws, or body is null and body.query throws:
\* the outer catch
JsonThrows(r, err) ==
  /\ pc[r] = "json"
  /\ Respond(r, ErrorResponse(500, messageOf(err)))
  /\ UNCHANGED <<startupModels, env, envChanges, body, models, idx, errors, acc, emitted,
                 agents, log, chainVars, streamVars>>

\* await req.json() resolves: validation, chain, and the first iteration of
\* the loop up to its await; `create` is what Agent.create does
JsonResolves(r, b, create) ==
  /\ pc[r] = "json"
  /\ body' = [body EXCEPT ![r] = b]
  /\ IF missingQuery(b)
     THEN /\ Respond(r, ErrorResponse(400, MissingQueryMessage))
          /\ UNCHANGED <<models, idx, log, agents, acc, emitted>>
     ELSE LET chain == getModelChain(b.model) IN
          /\ models' = [models EXCEPT ![r] = chain]
          /\ idx' = [idx EXCEPT ![r] = 1]
          /\ startAttempt(r, loopModel(chain, 1), b, log[r], create)
          /\ UNCHANGED response
  /\ UNCHANGED <<startupModels, env, envChanges, errors, chainVars, streamVars>>

\* mutant: an error of one attempt is not caught inside the loop and
\* reaches the outer catch
catchAttemptOuter(r, err, create) ==
  /\ Respond(r, ErrorResponse(500, messageOf(err)))
  /\ UNCHANGED <<errors, idx, log, agents, acc, emitted>>

\* mutant: the failure is logged but not pushed on errors
catchAttemptNoPush(r, err, create) ==
  LET model == loopModel(models[r], idx[r])
      lines == Append(log[r], failedLine(model, messageOf(err)))
  IN  /\ UNCHANGED errors
      /\ IF idx[r] = Len(models[r])
         THEN /\ log' = [log EXCEPT ![r] = lines]
              /\ Respond(r, ErrorResponse(500, allModelsFailed(errors[r])))
              /\ UNCHANGED <<idx, agents, acc, emitted>>
         ELSE /\ idx' = [idx EXCEPT ![r] = @ + 1]
              /\ startAttempt(r, loopModel(models[r], idx[r] + 1), body[r], lines, create)
              /\ UNCHANGED response

\* mutant: the failed model is tried again, the loop does not advance
catchAttemptRetry(r, err, create) ==
  LET model == loopModel(models[r], idx[r])
      msg == messageOf(err)
  IN  /\ errors' = [errors EXCEPT ![r] = Append(@, errorEntry(model, msg))]
      /\ startAttempt(r, model, body[r], Append(log[r], failedLine(model, msg)), create)
      /\ UNCHANGED <<idx, response>>

\* mutant: errors is one array of the module, shared by all requests
catchAttemptShared(r, err, create) ==
  LET model == loopModel(models[r], idx[r])
      msg == messageOf(err)
      errs == Append(errors[r], errorEntry(model, msg))
      lines == Append(log[r], failedLine(model, msg))
  IN  /\ errors' = [q \in DOMAIN errors |-> errs]
      /\ IF idx[r] = Len(models[r])
         THEN /\ log' = [log EXCEPT ![r] = lines]
              /\ Respond(r, ErrorResponse(500, allModelsFailed(errs)))
              /\ UNCHANGED <<idx, agents, acc, emitted>>
         ELSE /\ idx' = [idx EXCEPT ![r] = @ + 1]
              /\ startAttempt(r, loopModel(models[r], idx[r] + 1), body[r], lines, create)
              /\ UNCHANGED response

\* catch (err) of the loop body, then in the same job the next iteration up
\* to its await, or the code after the loop when models is exhausted
catchAttempt(r, err, create) ==
  LET model == loopModel(models[r], idx[r])
      msg == messageOf(err)
      errs == Append(errors[r], errorEntry(model, msg))
      lines == Append(log[r], failedLine(model, msg))
  IN  /\ errors' = [errors EXCEPT ![r] = errs]
      /\ IF idx[r] = Len(models[r])
         THEN /\ log' = [log EXCEPT ![r] = lines]
              /\ Respond(r, ErrorResponse(500, allModelsFailed(errs)))
              /\ UNCHANGED <<idx, agents, acc, emitted>>
         ELSE /\ idx' = [idx EXCEPT ![r] = @ + 1]
              /\ startAttempt(r, loopModel(models[r], idx[r] + 1), body[r], lines, create)
              /\ UNCHANGED response

\* runAgent's stream is being awaited
awaitingStream(r) == pc[r] = "stream"

\* runAgent's promise has settled and fetch has not resumed yet
runAgentSettled(r) == pc[r] = "settled"

\* mutant: runAgent settles while its stream is left running
endRunAbandoned(r, st) == agents

\* the state of the run of the current attempt becomes st; the number of
\* tool_end events its stream emitted is kept with it
endRun(r, st) ==
  [agents EXCEPT ![r] =
     [@ EXCEPT ![Len(@)] =
        [@ EXCEPT !.state = st,
                  !.toolEnds = Len(SelectSeq(emitted[r],
                                             LAMBDA e : e.type = "tool_end"))]]]

\* the stream yields an event: one pass of the for await body
StreamEvent(r, event) ==
  /\ awaitingStream(r)
  /\ Len(emitted[r]) < MaxEvents
  /\ emitted' = [emitted EXCEPT ![r] = Append(@, event)]
  /\ acc' = [acc EXCEPT ![r] = reduce(@, event)]
  /\ UNCHANGED <<startupModels, env, envChanges, pc, body, models, idx, errors, agents,
                 pending, log, response, chainVars, streamVars>>

\* the stream ends: runAgent returns, its promise is fulfilled
StreamEnds(r) ==
  /\ awaitingStream(r)
  /\ agents' = endRun(r, "ended")
  /\ pending' = [pending EXCEPT ![r] = Returned(runAgentResult(acc[r]))]
  /\ pc' = [pc EXCEPT ![r] = "settled"]
  /\ UNCHANGED <<startupModels, env, envChanges, body, models, idx, errors, acc, emitted,
                 log, response, chainVars, streamVars>>

\* the stream raises: runAgent's promise is rejected
StreamThrows(r, err) ==
  /\ awaitingStream(r)
  /\ agents' = endRun(r, "raised")
  /\ pending' = [pending EXCEPT ![r] = Rejected(err)]
  /\ pc' = [pc EXCEPT ![r] = "settled"]
  /\ UNCHANGED <<startupModels, env, envChanges, body, models, idx, errors, acc, emitted,
                 log, response, chainVars, streamVars>>

\* JSON.stringify accepts the result
serializable(result) ==
  \A i \in 1..Len(result.toolCalls) : result.toolCalls[i].args \notin Unserializable

\* fetch resumes after `await runAgent` with the result: Response.json
\* answers, or it throws jsonErr inside the try of the loop body
AwaitReturns(r, jsonErr, create) ==
  /\ runAgentSettled(r)
  /\ pending[r].kind = "returned"
  /\ IF serializable(pending[r].value)
     THEN /\ Respond(r, ResultResponse(pending[r].value, loopModel(models[r], idx[r])))
          /\ UNCHANGED <<idx, errors, log, agents, acc, emitted>>
     ELSE catchAttempt(r, jsonErr, create)
  /\ UNCHANGED <<startupModels, env, envChanges, body, models, chainVars, streamVars>>

\* fetch resumes after `await runAgent` with the rejection: the loop's catch
AwaitThrows(r, create) ==
  /\ runAgentSettled(r)
  /\ pending[r].kind = "rejected"
  /\ catchAttempt(r, pending[r].err, create)
  /\ UNCHANGED <<startupModels, env, envChanges, body, models, chainVars, streamVars>>

\* process.env is changed while the server runs
SetEnv(e) ==
  /\ envChanges < MaxEnvChanges
  /\ e # env
  /\ env' = e
  /\ envChanges' = envChanges + 1
  /\ UNCHANGED <<startupModels, reqVars, chainVars, streamVars>>

Next ==
  \/ \E r \in Requests, method \in Methods, path \in Paths : Fetch(r, method, path)
  \/ \E r \in Requests, err \in Thrown : JsonThrows(r, err)
  \/ \E r \in Requests, b \in Bodies, create \in CreateOutcomes :
       JsonResolves(r, b, create)
  \/ \E r \in Requests, event \in RequestEvents : StreamEvent(r, event)
  \/ \E r \in Requests : StreamEnds(r)
  \/ \E r \in Requests, err \in Thrown : StreamThrows(r, err)
  \/ \E r \in Requests, jsonErr \in SerializeErrors, create \in CreateOutcomes :
       AwaitReturns(r, jsonErr, create)
  \/ \E r \in Requests, create \in CreateOutcomes : AwaitThrows(r, create)

Spec == Init /\ [][Next]_vars

(***************************************************************************)
(* The server with what its scheduling guarantees: a pending req.json()    *)
(* settles, a job queued by a settled promise runs, and (the proviso of    *)
(* finite streams) an agent stream ends or raises.                         *)
(***************************************************************************)
JsonSettles(r) ==
  \/ \E b \in Bodies, create \in CreateOutcomes : JsonResolves(r, b, create)
  \/ \E err \in Thrown : JsonThrows(r, err)

StreamFinishes(r) ==
  \/ StreamEnds(r)
  \/ \E err \in Thrown : StreamThrows(r, err)

FetchResumes(r) ==
  \/ \E jsonErr \in SerializeErrors, create \in CreateOutcomes :
       AwaitReturns(r, jsonErr, create)
  \/ \E create \in CreateOutcomes : AwaitThrows(r, create)

Fairness ==
  \A r \in Requests :
    /\ WF_vars(JsonSettles(r))
    /\ WF_vars(StreamFinishes(r))
    /\ WF_vars(FetchResumes(r))

SpecLive == Init /\ [][Next]_vars /\ Fairness

(***************************************************************************)
(* The server while process.env is changed under it: the requests are      *)
(* followed up to the await of their first attempt.                        *)
(***************************************************************************)
NextEnv ==
  \/ \E e \in Envs : SetEnv(e)
  \/ \E r \in Requests, method \in Methods, path \in Paths : Fetch(r, method, path)
  \/ \E r \in Requests, err \in Thrown : JsonThrows(r, err)
  \/ \E r \in Requests, b \in Bodies, create \in CreateOutcomes :
       JsonResolves(r, b, create)

SpecEnv == Init /\ [][NextEnv]_vars

(***************************************************************************)
(* Two research requests served concurrently.  What each request receives  *)
(* (thrown values, tool arguments, answers) is marked with the request, so *)
(* that data of one request is recognisable wherever it ends up.           *)
(***************************************************************************)
ConcRequests == {1, 2}

Tag(r) == IF r = 1 THEN "u" ELSE "v"

\* request 1 names no model (chain b, a), request 2 names a (chain a, b)
ConcBodies ==
  { [received |-> TRUE, query |-> Some(<<"q", Tag(r)>>),
     model |-> IF r = 1 THEN Undefined ELSE Some(<<"a">>),
     maxIterations |-> NoNumber] : r \in ConcRequests }

ConcBodiesOf(r) == {b \in ConcBodies : b.query.val[2] = Tag(r)}

ConcThrown(r) == { [isError |-> TRUE, message |-> <<"x", Tag(r)>>] }

ConcCreateOutcomes(r) ==
  { [ok |-> TRUE] } \cup { [ok |-> FALSE, err |-> e] : e \in ConcThrown(r) }

ConcEvents(r) ==
  { [type |-> "tool_end", tool |-> "search", args |-> Tag(r), duration |-> Num(r)],
    [type |-> "done", answer |-> Tag(r), iterations |-> r, totalTime |-> r] }

InitConc ==
  /\ env = [DEXTER_MODEL |-> Some(<<"b">>),
            DEXTER_FALLBACK_MODELS |-> Some(<<"b", ",", " ", "a", ",", "b">>)]
  /\ envChanges = 0
  /\ InitStartup
  /\ pc = [r \in ConcRequests |-> "idle"]
  /\ body = [r \in ConcRequests |-> NoBody]
  /\ models = [r \in ConcRequests |-> <<>>]
  /\ idx = [r \in ConcRequests |-> 0]
  /\ errors = [r \in ConcRequests |-> <<>>]
  /\ acc = [r \in ConcRequests |-> InitAcc]
  /\ emitted = [r \in ConcRequests |-> <<>>]
  /\ agents = [r \in ConcRequests |-> <<>>]
  /\ pending = [r \in ConcRequests |-> NoOutcome]
  /\ log = [r \in ConcRequests |-> <<>>]
  /\ response = [r \in ConcRequests |-> NoResponse]
  /\ InitChain
  /\ InitStream

NextConc ==
  \/ \E r \in ConcRequests : Fetch(r, "POST", "/api/research")
  \/ \E r \in ConcRequests :
       \E b \in ConcBodiesOf(r), create \in ConcCreateOutcomes(r) :
         JsonResolves(r, b, create)
  \/ \E r \in ConcRequests : \E event \in ConcEvents(r) : StreamEvent(r, event)
  \/ \E r \in ConcRequests : StreamEnds(r)
  \/ \E r \in ConcRequests : \E err \in ConcThrown(r) : StreamThrows(r, err)
  \/ \E r \in ConcRequests :
       \E jsonErr \in SerializeErrors, create \in ConcCreateOutcomes(r) :
         AwaitReturns(r, jsonErr, create)
  \/ \E r \in ConcRequests :
       \E create \in ConcCreateOutcomes(r) : AwaitThrows(r, create)

SpecConc == InitConc /\ [][NextConc]_vars

(***************************************************************************)
(* getModelChain on its own: the inputs are drawn in the initial state.    *)
(***************************************************************************)
ChainAlphabet == {"a", "b", ",", " "}
\* lists with blanks other than the space, and with U+200B, which is none
ChainBlankLists ==
  { <<"a", ",", "\f", "a">>,
    <<NBSP, "b", ",", " ", "a">>,
    <<"a", VT, ",", "U+2028", "b", "U+3000">>,
    <<"\t", "b", "\n", ",", ZWNBSP, "a">>,
    <<OghamSpace, "\r", ",", "U+2029", "a">>,
    <<"a", ",", "U+200B", "a">> }
ChainLists ==
  UNION { [1..k -> ChainAlphabet] : k \in 0..MaxListLen } \cup ChainBlankLists
ChainRequestModels ==
  {Undefined, Some(<<>>), Some(<<"a">>), Some(<<"b">>), Some(<<"a", " ">>)}
ChainDefaults == {Undefined, Some(<<>>), Some(<<"b">>)}
ChainEnvs ==
  [DEXTER_MODEL : ChainDefaults,
   DEXTER_FALLBACK_MODELS : {Undefined} \cup {Some(l) : l \in ChainLists}]

InitChainCall ==
  /\ env \in ChainEnvs
  /\ envChanges = 0
  /\ InitStartup
  /\ InitRequests
  /\ chainArg \in ChainRequestModels
  /\ chainOut = [returned |-> FALSE]
  /\ InitStream

CallGetModelChain ==
  /\ ~chainOut.returned
  /\ chainOut' = [returned |-> TRUE, value |-> getModelChain(chainArg)]
  /\ UNCHANGED <<startupModels, env, envChanges, reqVars, chainArg, streamVars>>

NextChain == CallGetModelChain

SpecChain == InitChainCall /\ [][NextChain]_vars

(***************************************************************************)
(* The reduction of runAgent on its own: a stream is fed event by event.   *)
(***************************************************************************)
ReduceEvent(event) ==
  /\ ~streamOut.returned
  /\ Len(streamIn) < MaxStream
  /\ streamIn' = Append(streamIn, event)
  /\ streamAcc' = reduce(streamAcc, event)
  /\ UNCHANGED <<startupModels, env, envChanges, reqVars, chainVars, streamOut>>

ReduceReturn ==
  /\ ~streamOut.returned
  /\ streamOut' = [returned |-> TRUE, value |-> runAgentResult(streamAcc)]
  /\ UNCHANGED <<startupModels, env, envChanges, reqVars, chainVars, streamIn, streamAcc>>

NextReduce ==
  \/ \E event \in Events : ReduceEvent(event)
  \/ ReduceReturn

SpecReduce == Init /\ [][NextReduce]_vars

(***************************************************************************)
(* Vocabulary of the properties.                                           *)
(***************************************************************************)
IsSuccess(r) == response[r].status = 200 /\ response[r].kind = "result"

StartsWith(s, prefix) ==
  Len(s) >= Len(prefix) /\ SubSeq(s, 1, Len(prefix)) = prefix

IsAllFailed(r) ==
  response[r].status = 500 /\ StartsWith(response[r].error, AllFailedPrefix)

NoDuplicates(chain) ==
  \A i, j \in 1..Len(chain) : chain[i] = chain[j] => i = j

TryingLines(r) == SelectSeq(log[r], LAMBDA l : l.kind = "trying")
FailedLines(r) == SelectSeq(log[r], LAMBDA l : l.kind = "failed")

EmittedDone(r) == \E i \in 1..Len(emitted[r]) : emitted[r][i].type = "done"

RunningAgents(r) == {i \in 1..Len(agents[r]) : agents[r][i].state = "running"}

\* the attempts that have ended: by a raise (logged) or by a returned result
EndedAttempts(r) == Len(FailedLines(r)) + (IF IsSuccess(r) THEN 1 ELSE 0)

(***************************************************************************)
(* C1. Every 200 result response comes from an attempt whose stream        *)
(* emitted a `done` event: a stream that ends without `done` is a failed   *)
(* attempt.  The code returns the (empty) accumulators as a success.       *)
(***************************************************************************)
C1_SuccessRequiresDone ==
  \A r \in Requests : IsSuccess(r) => EmittedDone(r)

(***************************************************************************)
(* C2. Models are attempted in chain order from the first entry; a result  *)
(* response carries the first model whose attempt returned, the recorded   *)
(* failures are exactly the models before it, in order, and no attempt is  *)
(* started after it.                                                       *)
(***************************************************************************)
C2_ChainOrder ==
  \A r \in Requests :
    LET tried == TryingLines(r)
        failed == FailedLines(r)
    IN  /\ Len(tried) <= Len(models[r])
        /\ \A i \in 1..Len(tried) : tried[i].model = models[r][i]
        /\ IsSuccess(r) =>
             /\ Len(failed) = Len(errors[r])
             /\ Len(tried) = Len(failed) + 1
             /\ response[r].model = models[r][Len(failed) + 1]
             /\ \A i \in 1..Len(failed) :
                  /\ failed[i].model = models[r][i]
                  /\ StartsWith(errors[r][i], models[r][i] \o <<":", " ">>)

C2_Witness ==
  \E r \in Requests :
    /\ IsSuccess(r)
    /\ Len(models[r]) = 3
    /\ Len(errors[r]) = 2
    /\ response[r].model = models[r][3]

(***************************************************************************)
(* C3. When every model of the chain failed, the response is one 500 whose *)
(* error is "All models failed. " followed by one `model: message` pair    *)
(* per chain entry, in chain order, separated by " | ".                    *)
(***************************************************************************)
RECURSIVE C3_Pairs(_, _, _)
C3_Pairs(chain, failed, n) ==
  IF n = 0 THEN <<>>
  ELSE C3_Pairs(chain, failed, n - 1)
         \o (IF n > 1 THEN <<" ", "|", " ">> ELSE <<>>)
         \o chain[n] \o <<":", " ">> \o failed[n].msg

C3_AggregateError ==
  \A r \in Requests :
    (models[r] # <<>> /\ Len(FailedLines(r)) = Len(models[r])) =>
      /\ pc[r] = "responded"
      /\ response[r].status = 500
      /\ response[r].error =
           AllFailedPrefix \o C3_Pairs(models[r], FailedLines(r), Len(models[r]))
      /\ Len(errors[r]) = Len(models[r])

C3_Witness ==
  \E r \in Requests :
    /\ Len(models[r]) = 3
    /\ Len(FailedLines(r)) = 3
    /\ response[r].status = 500

(***************************************************************************)
(* C4. The chain starts with the request model, or with the configured     *)
(* default when the request model is absent or empty; it has no duplicate; *)
(* its tail is the trimmed, non-empty fallback entries not already in the  *)
(* chain, in the order of their first occurrence in the list.              *)
(***************************************************************************)
C4_Entries == FilterBoolean(MapTrim(split(OrElse(env.DEXTER_FALLBACK_MODELS, <<>>))))

C4_FirstIndex(entries, m) ==
  CHOOSE i \in 1..Len(entries) :
    entries[i] = m /\ \A j \in 1..(i - 1) : entries[j] # m

C4_ChainShape ==
  chainOut.returned =>
    LET chain == chainOut.value
        rest == Tail(chain)
        entries == C4_Entries
    IN  /\ Truthy(chainArg) => Head(chain) = chainArg.val
        /\ (~Truthy(chainArg) /\ Truthy(env.DEXTER_MODEL)) =>
             Head(chain) = env.DEXTER_MODEL.val
        /\ NoDuplicates(chain)
        /\ {rest[i] : i \in 1..Len(rest)}
             = {entries[i] : i \in 1..Len(entries)} \ {Head(chain)}
        /\ \A i, j \in 1..Len(rest) :
             i < j => C4_FirstIndex(entries, rest[i]) < C4_FirstIndex(entries, rest[j])
        /\ \A i \in 1..Len(rest) : rest[i] # <<>> /\ trim(rest[i]) = rest[i]

\* request model empty, default "b", list "a ,b,a": the chain is b, a
C4_Witness ==
  /\ chainOut.returned
  /\ chainArg = Some(<<>>)
  /\ env.DEXTER_MODEL = Some(<<"b">>)
  /\ env.DEXTER_FALLBACK_MODELS = Some(<<"a", " ", ",", "b", ",", "a">>)
  /\ chainOut.value = << <<"b">>, <<"a">> >>

(***************************************************************************)
(* C5. A stream of tool_end events followed by one done event reduces to   *)
(* the tool calls in emission order and the fields of the done event.      *)
(***************************************************************************)
C5_ToolsThenDone ==
  LET n == Len(streamIn) IN
    /\ n >= 1
    /\ streamIn[n].type = "done"
    /\ \A i \in 1..(n - 1) : streamIn[i].type = "tool_end"

C5_Reduction ==
  (streamOut.returned /\ C5_ToolsThenDone) =>
    LET n == Len(streamIn)
        result == streamOut.value
    IN  /\ Len(result.toolCalls) = n - 1
        /\ \A i \in 1..(n - 1) :
             /\ result.toolCalls[i].tool = streamIn[i].tool
             /\ result.toolCalls[i].args = streamIn[i].args
             /\ result.toolCalls[i].duration = streamIn[i].duration
        /\ result.answer = streamIn[n].answer
        /\ result.iterations = streamIn[n].iterations
        /\ result.totalTime = streamIn[n].totalTime

\* three tool_end events, not all the same, then done
C5_Witness ==
  /\ streamOut.returned
  /\ C5_ToolsThenDone
  /\ Len(streamIn) = 4
  /\ streamIn[1] # streamIn[2]
  /\ Len(streamOut.value.toolCalls) = 3

(***************************************************************************)
(* C6. The number of recorded failures never exceeds the chain length; it  *)
(* equals the chain length exactly when the request ends with the          *)
(* all-models-failed error, and is smaller when the request succeeds.      *)
(***************************************************************************)
C6_FailureCount ==
  \A r \in Requests :
    /\ Len(errors[r]) <= Len(models[r])
    /\ (models[r] # <<>> /\ Len(errors[r]) = Len(models[r])) <=> IsAllFailed(r)
    /\ IsSuccess(r) => Len(errors[r]) < Len(models[r])

\* a chain of two whose two attempts both failed
C6_Witness ==
  \E r \in Requests :
    /\ Len(models[r]) = 2
    /\ Len(errors[r]) = 2
    /\ IsAllFailed(r)

(***************************************************************************)
(* C7. The chain is never empty and never repeats an identifier, whatever  *)
(* the request model, DEXTER_MODEL and DEXTER_FALLBACK_MODELS are; with no *)
(* request model and no configured default it starts with 'gpt-5.2'.       *)
(***************************************************************************)
C7_ChainWellFormed ==
  chainOut.returned =>
    /\ Len(chainOut.value) >= 1
    /\ \A i \in 1..Len(chainOut.value) :
         \A j \in (i + 1)..Len(chainOut.value) :
           chainOut.value[i] # chainOut.value[j]
    /\ (~Truthy(chainArg) /\ ~Truthy(env.DEXTER_MODEL)) =>
         chainOut.value[1] = <<"g", "p", "t", "-", "5", ".", "2">>

\* nothing configured but a list with a repeated entry and blanks
C7_Witness ==
  /\ chainOut.returned
  /\ chainArg = Undefined
  /\ env.DEXTER_MODEL = Undefined
  /\ env.DEXTER_FALLBACK_MODELS = Some(<<"a", ",", " ", ",", "a", ",">>)
  /\ Len(chainOut.value) = 2

(***************************************************************************)
(* C8. A research request whose body has no query, or an empty one, is     *)
(* answered 400 "Missing required field: query"; no agent is created and   *)
(* no model is attempted for it.                                           *)
(***************************************************************************)
C8_NoQuery(r) ==
  /\ body[r].received
  /\ (~body[r].query.some \/ Len(body[r].query.val) = 0)

C8_MissingQuery ==
  \A r \in Requests :
    C8_NoQuery(r) =>
      /\ response[r] = [status |-> 400, kind |-> "error", error |-> MissingQueryMessage]
      /\ agents[r] = <<>>
      /\ log[r] = <<>>
      /\ models[r] = <<>>
      /\ pc[r] = "responded"

C8_Witness ==
  \E r \in Requests :
    /\ body[r].received
    /\ body[r].query = Some(<<>>)
    /\ response[r].status = 400

(***************************************************************************)
(* C9. Within one request at most one agent run is active, and an attempt  *)
(* starts only when every earlier attempt of the request has ended.        *)
(***************************************************************************)
C9_Sequential ==
  \A r \in Requests :
    /\ Cardinality(RunningAgents(r)) <= 1
    /\ \A i \in 1..(Len(agents[r]) - 1) : agents[r][i].state # "running"
    /\ Len(TryingLines(r)) <= EndedAttempts(r) + 1

\* the third attempt is running after two attempts that ended
C9_Witness ==
  \E r \in Requests :
    /\ Len(agents[r]) = 3
    /\ agents[r][3].state = "running"
    /\ agents[r][1].state = "raised"

(***************************************************************************)
(* C10. An error raised inside an attempt does not end the request: it is  *)
(* recorded as `model: message` and the next chain entry is attempted; the *)
(* request ends in an error response only when the chain is exhausted.     *)
(***************************************************************************)
C10_Messages == {<<"x">>, <<"y">>, <<"z">>}

C10_InLoop(r) == pc[r] \in {"stream", "settled"}

\* a step of the request that handles an error of the current attempt
C10_AttemptErrorStep(r) ==
  /\ C10_InLoop(r)
  /\ \/ errors'[r] # errors[r]
     \/ (pc'[r] = "responded" /\ response'[r].status >= 400)
     \/ (pending[r].kind = "rejected" /\ pending'[r] # pending[r])

C10_ErrorsRecovered ==
  [][\A r \in Requests :
       /\ pending'[r].kind = "rejected" => response'[r] = NoResponse
       /\ C10_AttemptErrorStep(r) =>
            /\ Len(errors'[r]) = Len(errors[r]) + 1
            /\ SubSeq(errors'[r], 1, Len(errors[r])) = errors[r]
            /\ \E msg \in C10_Messages :
                 errors'[r][Len(errors'[r])] = models[r][idx[r]] \o <<":", " ">> \o msg
            /\ pending[r].kind = "rejected" =>
                 errors'[r][Len(errors'[r])] =
                   models[r][idx[r]] \o <<":", " ">>
                     \o (IF pending[r].err.isError
                         THEN pending[r].err.message
                         ELSE pending[r].err.value)
            /\ IF idx[r] < Len(models[r])
               THEN /\ C10_InLoop(r)'
                    /\ idx'[r] = idx[r] + 1
                    /\ response'[r] = NoResponse
                    /\ log'[r][Len(log'[r])] =
                         [kind |-> "trying", model |-> models[r][idx[r] + 1]]
               ELSE /\ pc'[r] = "responded"
                    /\ IsAllFailed(r)'
                    /\ Len(errors'[r]) = Len(models[r])
    ]_vars

\* a stream raised after a tool_end event, the failure is recorded and the
\* next model is up
C10_Witness ==
  \E r \in Requests :
    /\ C10_InLoop(r)
    /\ idx[r] = 2
    /\ Len(errors[r]) = 1
    /\ agents[r] # <<>>
    /\ agents[r][1].state = "raised"
    /\ agents[r][1].toolEnds >= 1

(***************************************************************************)
(* C11. Within one request no model identifier is attempted twice, also    *)
(* when the fallback list repeats it or repeats the primary candidate; a   *)
(* failed model is not tried again.                                        *)
(***************************************************************************)
C11_NoModelTwice ==
  \A r \in Requests :
    /\ \A i, j \in 1..Len(log[r]) :
         (log[r][i].kind = "trying" /\ log[r][j].kind = "trying" /\ i # j)
           => log[r][i].model # log[r][j].model
    /\ \A i, j \in 1..Len(agents[r]) :
         i # j => agents[r][i].model # agents[r][j].model
    /\ \A i \in 1..Len(log[r]) :
         log[r][i].kind = "failed" =>
           \A j \in (i + 1)..Len(log[r]) :
             log[r][j].kind = "trying" => log[r][j].model # log[r][i].model

\* the chain gpt-5.2, b, a built from the list "b, a,b", every entry tried
C11_Witness ==
  \E r \in Requests :
    /\ Len(models[r]) = 3
    /\ models[r][1] = DefaultModel
    /\ Len(TryingLines(r)) = 3
    /\ Len(FailedLines(r)) >= 2

(***************************************************************************)
(* C12. In the reduction an event that is neither tool_end nor done leaves *)
(* answer, toolCalls, iterations and totalTime as they are; tool_end only  *)
(* appends one record to toolCalls; done only sets answer, iterations and  *)
(* totalTime.                                                              *)
(***************************************************************************)
C12_Frame ==
  [][ streamIn' # streamIn =>
        LET event == streamIn'[Len(streamIn')] IN
          /\ event.type \notin {"tool_end", "done"} => streamAcc' = streamAcc
          /\ event.type = "tool_end" =>
               /\ Len(streamAcc'.toolCalls) = Len(streamAcc.toolCalls) + 1
               /\ SubSeq(streamAcc'.toolCalls, 1, Len(streamAcc.toolCalls))
                    = streamAcc.toolCalls
               /\ streamAcc'.toolCalls[Len(streamAcc'.toolCalls)]
                    = [tool |-> event.tool, args |-> event.args,
                       duration |-> event.duration]
               /\ streamAcc'.answer = streamAcc.answer
               /\ streamAcc'.iterations = streamAcc.iterations
               /\ streamAcc'.totalTime = streamAcc.totalTime
          /\ event.type = "done" =>
               /\ streamAcc'.toolCalls = streamAcc.toolCalls
               /\ streamAcc'.answer = event.answer
               /\ streamAcc'.iterations = event.iterations
               /\ streamAcc'.totalTime = event.totalTime
    ]_vars

\* an event of another type arrived after a tool call and an answer
C12_Witness ==
  /\ Len(streamIn) = 3
  /\ streamIn[1].type = "tool_end"
  /\ streamIn[2].type = "done"
  /\ streamIn[3].type = "thinking"
  /\ Len(streamAcc.toolCalls) = 1
  /\ streamAcc.answer = streamIn[2].answer

(***************************************************************************)
(* C15. An exception raised before the fallback loop starts (req.json()    *)
(* rejects) gives a 500 response carrying the exception's own message,     *)
(* without the "All models failed." prefix, and no agent run is started.   *)
(***************************************************************************)
C15_RawMessages == {<<"x">>, <<"y">>}

\* the request was answered without its body ever being parsed
C15_FailedBeforeLoop(r) ==
  /\ pc[r] = "responded"
  /\ ~body[r].received
  /\ response[r].status = 500

C15_UnexpectedError ==
  \A r \in Requests :
    C15_FailedBeforeLoop(r) =>
      /\ response[r].kind = "error"
      /\ response[r].error \in C15_RawMessages
      /\ ~StartsWith(response[r].error, AllFailedPrefix)
      /\ agents[r] = <<>>
      /\ log[r] = <<>>
      /\ models[r] = <<>>
      /\ errors[r] = <<>>

\* req.json() rejected with an Error whose message is "x"
C15_Witness ==
  \E r \in Requests :
    /\ C15_FailedBeforeLoop(r)
    /\ response[r].error = <<"x">>

(***************************************************************************)
(* C18. The reduction does not stop at the first done event: with several  *)
(* done events the answer, iterations and totalTime are those of the last  *)
(* one, and tool_end events after a done are still appended to toolCalls.  *)
(***************************************************************************)
C18_Positions(type) == {i \in 1..Len(streamIn) : streamIn[i].type = type}

\* the k-th smallest element of a set of positions
RECURSIVE C18_Nth(_, _)
C18_Nth(positions, k) ==
  LET least == CHOOSE i \in positions : \A j \in positions : i <= j
  IN  IF k = 1 THEN least ELSE C18_Nth(positions \ {least}, k - 1)

C18_LastDoneWins ==
  streamOut.returned =>
    LET tools == C18_Positions("tool_end")
        dones == C18_Positions("done")
        result == streamOut.value
    IN  /\ Len(result.toolCalls) = Cardinality(tools)
        /\ \A k \in 1..Cardinality(tools) :
             LET event == streamIn[C18_Nth(tools, k)] IN
               result.toolCalls[k] =
                 [tool |-> event.tool, args |-> event.args, duration |-> event.duration]
        /\ dones # {} =>
             LET last == CHOOSE i \in dones : \A j \in dones : j <= i IN
               /\ result.answer = streamIn[last].answer
               /\ result.iterations = streamIn[last].iterations
               /\ result.totalTime = streamIn[last].totalTime

\* done, tool_end, then a different done
C18_Witness ==
  /\ streamOut.returned
  /\ Len(streamIn) = 3
  /\ streamIn[1].type = "done"
  /\ streamIn[2].type = "tool_end"
  /\ streamIn[3].type = "done"
  /\ streamIn[3] # streamIn[1]
  /\ streamOut.value.answer = streamIn[3].answer
  /\ Len(streamOut.value.toolCalls) = 1

(***************************************************************************)
(* C17. The toolCalls of a success response are the tool_end events of the *)
(* attempt that produced it; tool calls seen during earlier, failed        *)
(* attempts of the request are not in the result.                          *)
(***************************************************************************)
C17_ToolEnds(r) == SelectSeq(emitted[r], LAMBDA e : e.type = "tool_end")

C17_OwnToolCalls ==
  \A r \in Requests :
    IsSuccess(r) =>
      LET own == C17_ToolEnds(r)
          last == agents[r][Len(agents[r])]
      IN  /\ last.state = "ended"
          /\ last.model = response[r].model
          /\ Len(response[r].toolCalls) = last.toolEnds
          /\ Len(response[r].toolCalls) = Len(own)
          /\ \A i \in 1..Len(own) :
               response[r].toolCalls[i] =
                 [tool |-> own[i].tool, args |-> own[i].args,
                  duration |-> own[i].duration]

\* the first attempt raised after two tool calls, the second one answered
\* with a single tool call
C17_Witness ==
  \E r \in Requests :
    /\ IsSuccess(r)
    /\ Len(agents[r]) = 2
    /\ agents[r][1].state = "raised"
    /\ agents[r][1].toolEnds = 2
    /\ Len(response[r].toolCalls) = 1
    /\ response[r].answer # ""

(***************************************************************************)
(* C14. The default model and the fallback list behind a chain are the     *)
(* values read at process start: the chain of a health check, and of a     *)
(* request without a model of its own, is the chain the startup banner     *)
(* printed, whatever was changed in the environment since.  The code       *)
(* reads process.env again on every call of getModelChain.                 *)
(***************************************************************************)
C14_StartupSnapshot ==
  \A r \in Requests :
    /\ (response[r].status = 200 /\ response[r].kind = "health") =>
         /\ response[r].primaryModel = Head(startupModels)
         /\ response[r].fallbackModels = Tail(startupModels)
    /\ (models[r] # <<>> /\ ~Truthy(body[r].model)) => models[r] = startupModels

(***************************************************************************)
(* C13. With requests served concurrently, the response of each request is *)
(* determined by its own chain and the streams of its own attempts; no     *)
(* failure message, tool call or answer of another request is in it.       *)
(***************************************************************************)
C13_Positions(r, type) == {i \in 1..Len(emitted[r]) : emitted[r][i].type = type}

\* the result that the stream of the request's last attempt amounts to
C13_OwnResult(r) ==
  LET tools == SelectSeq(emitted[r], LAMBDA e : e.type = "tool_end")
      dones == C13_Positions(r, "done")
      last == CHOOSE i \in dones : \A j \in dones : j <= i
  IN  [status |-> 200, kind |-> "result",
       answer |-> IF dones = {} THEN "" ELSE emitted[r][last].answer,
       toolCalls |-> [i \in 1..Len(tools) |->
                        [tool |-> tools[i].tool, args |-> tools[i].args,
                         duration |-> tools[i].duration]],
       iterations |-> IF dones = {} THEN 0 ELSE emitted[r][last].iterations,
       totalTime |-> IF dones = {} THEN 0 ELSE emitted[r][last].totalTime,
       model |-> models[r][Len(FailedLines(r)) + 1]]

C13_Foreign(r) == {Tag(q) : q \in ConcRequests \ {r}}

C13_Isolation ==
  \A r \in ConcRequests :
    /\ IsSuccess(r) =>
         /\ response[r] = C13_OwnResult(r)
         /\ response[r].answer \notin C13_Foreign(r)
         /\ \A i \in 1..Len(response[r].toolCalls) :
              response[r].toolCalls[i].args = Tag(r)
    /\ (response[r].status = 500) =>
         /\ response[r].error =
              AllFailedPrefix \o C3_Pairs(models[r], FailedLines(r), Len(models[r]))
         /\ \A i \in 1..Len(response[r].error) :
              response[r].error[i] \notin C13_Foreign(r)
    /\ \A i \in 1..Len(errors[r]) :
         \A k \in 1..Len(errors[r][i]) : errors[r][i][k] \notin C13_Foreign(r)

\* request 1 has ended with the aggregate error while request 2, after a
\* failure of its own, is in the middle of a stream
C13_Witness ==
  /\ IsAllFailed(1)
  /\ Len(errors[1]) = 2
  /\ pc[2] = "stream"
  /\ Len(errors[2]) = 1
  /\ emitted[2] # <<>>

(***************************************************************************)
(* C16. With finite streams every research request gets exactly one        *)
(* response, after at most as many attempts as the chain is long; while a  *)
(* stream has not ended, no later model is attempted and no response is    *)
(* produced.                                                               *)
(***************************************************************************)
C16_Termination ==
  /\ \A r \in Requests : (pc[r] = "json") ~> (pc[r] = "responded")
  /\ [](\A r \in Requests :
          /\ Len(TryingLines(r)) <= Len(models[r])
          /\ Len(agents[r]) <= Len(models[r])
          /\ pc[r] = "responded" <=> response[r] # NoResponse
          /\ pc[r] \in {"stream", "settled"} => response[r] = NoResponse)
  /\ [][\A r \in Requests :
          /\ response[r] # NoResponse => response'[r] = response[r]
          /\ (pc[r] = "stream" /\ pc'[r] = "stream") =>
               /\ log'[r] = log[r]
               /\ agents'[r] = agents[r]
               /\ idx'[r] = idx[r]
       ]_vars

\* answered after exactly as many attempts as the chain is long, the last
\* of which returned
C16_Witness ==
  \E r \in Requests :
    /\ pc[r] = "responded"
    /\ Len(models[r]) = 3
    /\ Len(agents[r]) + Len(FailedLines(r)) >= 3
    /\ Len(TryingLines(r)) = 3
    /\ response[r].status = 200

=============================================================================
